---- MODULE Spec2Model ----
(***************************************************************************)
(* Model of dags/dag_currency_etl.py: the currency_rates_etl DAG.          *)
(*                                                                         *)
(* One DAG run per logical date runs the tasks extract -> transform ->     *)
(* load.  extract carries retries=5 / retry_delay=1 minute, the other two  *)
(* tasks inherit retries=0 from default_args.  Runs for different logical  *)
(* dates interleave freely; a run for a date can be started again once the *)
(* previous run for that date has finished (scheduler re-run / clear).     *)
(*                                                                         *)
(* Values: a JSON response is a function whose DOMAIN is the set of keys   *)
(* present; a rates mapping is a sequence of <<code, rate>> pairs with     *)
(* distinct codes (dict insertion order); a currency code is a sequence of *)
(* one-character strings; a rate is a decimal scaled by 100; a timestamp   *)
(* is the string pandas prints for it; a path is the sequence of its parts.  *)
(***************************************************************************)
EXTENDS Integers, Sequences, FiniteSets, TLC

VARIABLES schedule, outages, now, runs, ti, try_number, end_date,
          calls, xcom, error, storage, lastLoaded

vars == <<schedule, outages, now, runs, ti, try_number, end_date,
          calls, xcom, error, storage, lastLoaded>>

----------------------------------------------------------------------------
(* Bounds of the model *)

\* DAG runs that may be started in all
MaxRuns == 3
\* failed requests in all when runs of several logical dates interleave
\* (a schedule of one logical date has no such limit)
MaxOutages == 1

----------------------------------------------------------------------------
(* Configuration *)

BASE_CURRENCY == "USD"
OUTPUT_PATH == "gs://bucket/rates"

\* @task(retries=5, retry_delay=timedelta(minutes=1)) on extract
retries == 5
retry_delay == 1
\* default_args = {"retries": 0}: transform and load
default_retries == 0

\* logical dates ({{ ds }}) the scheduler hands out
LogicalDates == {"2025-07-01", "2025-07-02"}

\* an empty XCom slot / no result
NoValue == [none |-> TRUE]
\* no error recorded
NoError == ""
\* JSON null / Python None
None == "<None>"

----------------------------------------------------------------------------
(* Values the remote service can answer with *)

EUR == <<"E", "U", "R">>
GBP == <<"G", "B", "P">>
eur == <<"e", "u", "r">>

Responses ==
  { [date |-> "2025-07-01", rates |-> << <<EUR, 92>>, <<GBP, 79>> >>],
    [rates |-> << <<GBP, 79>>, <<EUR, 92>> >>],
    [date |-> "2025-07-01", rates |-> << >>],
    [date |-> "2025-07-01"],
    [date |-> "not-a-date", rates |-> << <<EUR, 92>> >>],
    [date |-> None, rates |-> << <<EUR, 92>> >>],
    [date |-> "2025-07-01", rates |-> << <<eur, 0 - 5>> >>] }

----------------------------------------------------------------------------
(* Helpers: dict.get, pd.to_datetime, DataFrame column handling *)

\* data.get(key, default)
Get(data, key, default) == IF key \in DOMAIN data THEN data[key] ELSE default

\* Strings pd.to_datetime understands, with the timestamp each denotes.
ParseTable ==
  [s \in {"2025-07-01", "2025-07-02"} |->
     CASE s = "2025-07-01" -> "2025-07-01 00:00:00"
       [] s = "2025-07-02" -> "2025-07-02 00:00:00"]

\* pd.to_datetime(arg): None stays None, a date string becomes a timestamp,
\* anything else raises.
to_datetime(arg) ==
  IF arg = None THEN [ok |-> TRUE, value |-> None]
  ELSE IF arg \in DOMAIN ParseTable THEN [ok |-> TRUE, value |-> ParseTable[arg]]
  ELSE [ok |-> FALSE, value |-> None]

\* pd.DataFrame(list(rates.items()), columns=["currency_code", "rate"])
DataFrame(items) ==
  [columns |-> <<"currency_code", "rate">>,
   rows |-> [i \in 1..Len(items) |->
               [c \in {"currency_code", "rate"} |->
                  IF c = "currency_code" THEN items[i][1] ELSE items[i][2]]]]

\* df[name] = scalar : appends the column, the same value in every row
SetColumn(df, name, value) ==
  [columns |-> Append(df.columns, name),
   rows |-> [i \in 1..Len(df.rows) |->
               [c \in DOMAIN df.rows[i] \cup {name} |->
                  IF c = name THEN value ELSE df.rows[i][c]]]]

SelectColumns_unordered(df, cols) == df

\* df[final_columns]
SelectColumns(df, cols) ==
  [columns |-> cols,
   rows |-> [i \in 1..Len(df.rows) |-> [c \in {cols[j] : j \in 1..Len(cols)} |-> df.rows[i][c]]]]

\* the parquet content of a frame: column names and the rows as tuples in
\* column order
Serialize(df) ==
  [columns |-> df.columns,
   rows |-> [i \in 1..Len(df.rows) |->
               [j \in 1..Len(df.columns) |-> df.rows[i][df.columns[j]]]]]

----------------------------------------------------------------------------
(* The tasks' bodies *)

final_columns == <<"date", "base_currency", "currency_code", "rate">>

transform_keeps_empty(data, logical_date_str, base_currency) ==
  LET rates == Get(data, "rates", << >>)
      date == to_datetime(Get(data, "date", logical_date_str))
  IN IF ~date.ok
     THEN [ok |-> FALSE, error |-> "ValueError: date", df |-> NoValue]
     ELSE [ok |-> TRUE, error |-> NoError,
           df |-> SelectColumns(
                    SetColumn(SetColumn(DataFrame(rates), "base_currency", base_currency),
                              "date", date.value),
                    final_columns)]

transform_stamps_logical_date(data, logical_date_str, base_currency) ==
  LET rates == Get(data, "rates", << >>)
      date == to_datetime(logical_date_str)
  IN IF rates = << >>
     THEN [ok |-> FALSE, error |-> "ValueError: No rate data available", df |-> NoValue]
     ELSE [ok |-> TRUE, error |-> NoError,
           df |-> SelectColumns(
                    SetColumn(SetColumn(DataFrame(rates), "base_currency", base_currency),
                              "date", date.value),
                    final_columns)]

\* transform(data, logical_date_str, base_currency): the frame, or the
\* exception that ends the task.
transform(data, logical_date_str, base_currency) ==
  LET rates == Get(data, "rates", << >>)
      date == to_datetime(Get(data, "date", logical_date_str))
  IN IF rates = << >>
     THEN [ok |-> FALSE, error |-> "ValueError: No rate data available", df |-> NoValue]
     ELSE IF ~date.ok
     THEN [ok |-> FALSE, error |-> "ValueError: date", df |-> NoValue]
     ELSE [ok |-> TRUE, error |-> NoError,
           df |-> SelectColumns(
                    SetColumn(SetColumn(DataFrame(rates), "base_currency", base_currency),
                              "date", date.value),
                    final_columns)]

PartitionPath_no_date(output_path, base_currency, logical_date_str) ==
  <<output_path, "/base_currency=", base_currency, "/date=", "", "/data.parquet">>

\* f"{OUTPUT_PATH}/base_currency={base_currency}/date={logical_date_str}/data.parquet"
PartitionPath(output_path, base_currency, logical_date_str) ==
  <<output_path, "/base_currency=", base_currency, "/date=", logical_date_str,
    "/data.parquet">>

to_parquet_append(files, output_file, df) ==
  files \cup {[path |-> output_file, content |-> Serialize(df)]}

\* df.to_parquet(output_file, ...): the object at output_file is created or
\* replaced by the serialized frame
to_parquet(files, output_file, df) ==
  {f \in files : f.path # output_file} \cup
  {[path |-> output_file, content |-> Serialize(df)]}

\* the date a frame's rows carry, rendered as a {{ ds }} string when it is one
\* of the logical dates
FrameDateStr(df, logical_date_str) ==
  LET ts == IF df = NoValue THEN None ELSE df.rows[1]["date"]
  IN IF \E s \in LogicalDates : ParseTable[s] = ts
     THEN CHOOSE s \in LogicalDates : ParseTable[s] = ts
     ELSE logical_date_str

load_writes_without_credentials(df, logical_date_str, base_currency, files, credentials_ok, write_ok) ==
  LET output_file == PartitionPath(OUTPUT_PATH, base_currency, logical_date_str)
  IN IF ~write_ok \/ df = NoValue
     THEN [ok |-> FALSE, error |-> "AirflowException: Failed to write to GCS",
           credentials |-> IF credentials_ok THEN 1 ELSE 0, writes |-> 1, files |-> files]
     ELSE [ok |-> TRUE, error |-> NoError,
           credentials |-> IF credentials_ok THEN 1 ELSE 0, writes |-> 1,
           files |-> to_parquet(files, output_file, df)]

load_partitions_by_frame_date(df, logical_date_str, base_currency, files, credentials_ok, write_ok) ==
  LET output_file == PartitionPath(OUTPUT_PATH, base_currency,
                                   FrameDateStr(df, logical_date_str))
  IN IF ~credentials_ok
     THEN [ok |-> FALSE, error |-> "AirflowException: Failed to authenticate with GCP",
           credentials |-> 0, writes |-> 0, files |-> files]
     ELSE IF ~write_ok \/ df = NoValue
     THEN [ok |-> FALSE, error |-> "AirflowException: Failed to write to GCS",
           credentials |-> 1, writes |-> 1, files |-> files]
     ELSE [ok |-> TRUE, error |-> NoError, credentials |-> 1, writes |-> 1,
           files |-> to_parquet(files, output_file, df)]

\* load(df, logical_date_str, base_currency) on the storage `files`.
\* credentials_ok: get_credentials() returned; write_ok: the upload went
\* through (to_parquet on a missing frame raises as well).  credentials and
\* writes count the credentials obtained and the to_parquet calls made.
load(df, logical_date_str, base_currency, files, credentials_ok, write_ok) ==
  LET output_file == PartitionPath(OUTPUT_PATH, base_currency, logical_date_str)
  IN IF ~credentials_ok
     THEN [ok |-> FALSE, error |-> "AirflowException: Failed to authenticate with GCP",
           credentials |-> 0, writes |-> 0, files |-> files]
     ELSE IF ~write_ok \/ df = NoValue
     THEN [ok |-> FALSE, error |-> "AirflowException: Failed to write to GCS",
           credentials |-> 1, writes |-> 1, files |-> files]
     ELSE [ok |-> TRUE, error |-> NoError, credentials |-> 1, writes |-> 1,
           files |-> to_parquet(files, output_file, df)]

----------------------------------------------------------------------------
(* Task instances of one DAG run *)

Tasks == {"extract", "transform", "load"}

\* transform consumes extract's result, load consumes transform's
Upstream(task) ==
  CASE task = "extract"   -> {}
    [] task = "transform" -> {"extract"}
    [] task = "load"      -> {"transform"}

Downstream(task) ==
  CASE task = "extract"   -> {"transform", "load"}
    [] task = "transform" -> {"load"}
    [] task = "load"      -> {}

Runnable_ignoring_upstream(tis, task) ==
  tis[task] \in {"scheduled", "up_for_retry"}

\* a task instance runs when it is waiting and everything upstream succeeded
Runnable(tis, task) ==
  /\ tis[task] \in {"scheduled", "up_for_retry"}
  /\ \A u \in Upstream(task) : tis[u] = "success"

\* retries allowed for a task: the decorator's value, else default_args
TaskRetries(task) == IF task = "extract" THEN retries ELSE default_retries

IsEligibleToRetry_one_short(task, tries) == tries < TaskRetries(task)

\* after `tries` failed attempts the task is retried while tries <= retries
IsEligibleToRetry(task, tries) == tries <= TaskRetries(task)

\* the task failed for good: everything downstream becomes upstream_failed
Failed(tis, task) ==
  [t \in Tasks |-> IF t = task THEN "failed"
                   ELSE IF t \in Downstream(task) THEN "upstream_failed"
                   ELSE tis[t]]

Succeeded(tis, task) == [tis EXCEPT ![task] = "success"]

RunState(tis) ==
  IF \A t \in Tasks : tis[t] = "none" THEN "none"
  ELSE IF \A t \in Tasks : tis[t] = "success" THEN "success"
  ELSE IF \E t \in Tasks : tis[t] = "failed" THEN "failed"
  ELSE "running"

\* per run: calls of each task body, credentials obtained, to_parquet calls
NoCalls == [extract |-> 0, transform |-> 0, load |-> 0, credentials |-> 0, write |-> 0]
NoXCom == [data |-> NoValue, df |-> NoValue]

---------------------------------------------------------------------------------------------------------------------------------------------------
(* State machine *)

\* the logical dates the scheduler creates runs for: one date, or both
Schedules == {{d} : d \in LogicalDates} \cup {LogicalDates}

Init ==
  /\ schedule \in Schedules
  /\ outages = 0
  /\ now = 0
  /\ runs = 0
  /\ ti = [d \in LogicalDates |-> [t \in Tasks |-> "none"]]
  /\ try_number = [d \in LogicalDates |-> 0]
  /\ end_date = [d \in LogicalDates |-> 0]
  /\ calls = [d \in LogicalDates |-> NoCalls]
  /\ xcom = [d \in LogicalDates |-> NoXCom]
  /\ error = [d \in LogicalDates |-> NoError]
  /\ storage = {}
  /\ lastLoaded = [d \in LogicalDates |-> [n |-> 0, data |-> NoValue]]

\* the scheduler starts (or re-runs) the DAG run of logical date d
StartRun(d) ==
  /\ d \in schedule
  /\ runs < MaxRuns
  /\ RunState(ti[d]) \in {"none", "success", "failed"}
  /\ runs' = runs + 1
  /\ ti' = [ti EXCEPT ![d] = [t \in Tasks |-> "scheduled"]]
  /\ try_number' = [try_number EXCEPT ![d] = 0]
  /\ end_date' = [end_date EXCEPT ![d] = now]
  /\ calls' = [calls EXCEPT ![d] = NoCalls]
  /\ xcom' = [xcom EXCEPT ![d] = NoXCom]
  /\ error' = [error EXCEPT ![d] = NoError]
  /\ UNCHANGED <<schedule, outages, now, storage, lastLoaded>>

\* what one requests.get can come to: a response body, or a RequestException
RequestException == [exception |-> "RequestException"]
Answers == Responses \cup {RequestException}

\* the request may fail now
MayFail == Cardinality(schedule) = 1 \/ outages < MaxOutages

ReadyAt_no_delay(tis, ended) == ended

\* a task instance that is up for retry is ready retry_delay after the end of
\* its failed attempt; a first attempt is ready at once
ReadyAt(tis, ended) ==
  IF tis["extract"] = "up_for_retry" THEN ended + retry_delay ELSE ended

\* one attempt of extract(d, BASE_CURRENCY)
Extract(d) ==
  /\ Runnable(ti[d], "extract")
  /\ now >= ReadyAt(ti[d], end_date[d])
  /\ \E answer \in Answers :
       /\ answer = RequestException => MayFail
       /\ try_number' = [try_number EXCEPT ![d] = @ + 1]
       /\ calls' = [calls EXCEPT ![d].extract = @ + 1]
       /\ end_date' = [end_date EXCEPT ![d] = now]
       /\ IF answer = RequestException
          THEN /\ error' = [error EXCEPT ![d] = "AirflowException: API request failed"]
               /\ outages' = IF Cardinality(schedule) = 1 THEN outages ELSE outages + 1
               /\ UNCHANGED xcom
               /\ ti' = [ti EXCEPT ![d] =
                           IF IsEligibleToRetry("extract", try_number[d] + 1)
                           THEN [@ EXCEPT !["extract"] = "up_for_retry"]
                           ELSE Failed(@, "extract")]
          ELSE /\ xcom' = [xcom EXCEPT ![d].data = answer]
               /\ ti' = [ti EXCEPT ![d] = Succeeded(@, "extract")]
               /\ error' = [error EXCEPT ![d] = NoError]
               /\ UNCHANGED outages
  /\ UNCHANGED <<schedule, now, runs, storage, lastLoaded>>

\* the transform task of the run of d
Transform(d) ==
  /\ Runnable(ti[d], "transform")
  /\ LET r == transform(xcom[d].data, d, BASE_CURRENCY)
     IN /\ calls' = [calls EXCEPT ![d].transform = @ + 1]
        /\ IF r.ok
           THEN /\ xcom' = [xcom EXCEPT ![d].df = r.df]
                /\ ti' = [ti EXCEPT ![d] = Succeeded(@, "transform")]
                /\ UNCHANGED error
           ELSE /\ error' = [error EXCEPT ![d] = r.error]
                /\ ti' = [ti EXCEPT ![d] =
                            IF IsEligibleToRetry("transform", calls[d].transform + 1)
                            THEN [@ EXCEPT !["transform"] = "up_for_retry"]
                            ELSE Failed(@, "transform")]
                /\ UNCHANGED xcom
  /\ UNCHANGED <<schedule, outages, now, runs, try_number, end_date, storage, lastLoaded>>

\* the load task of the run of d
Load(d) ==
  /\ Runnable(ti[d], "load")
  /\ \E credentials_ok \in BOOLEAN, write_ok \in BOOLEAN :
       LET r == load(xcom[d].df, d, BASE_CURRENCY, storage, credentials_ok, write_ok)
       IN /\ calls' = [calls EXCEPT ![d].load = @ + 1,
                                    ![d].credentials = @ + r.credentials,
                                    ![d].write = @ + r.writes]
          /\ storage' = r.files
          /\ IF r.ok
             THEN /\ ti' = [ti EXCEPT ![d] = Succeeded(@, "load")]
                  /\ lastLoaded' = [lastLoaded EXCEPT ![d] = [n |-> @.n + 1, data |-> xcom[d].data]]
                  /\ UNCHANGED error
             ELSE /\ error' = [error EXCEPT ![d] = r.error]
                  /\ ti' = [ti EXCEPT ![d] =
                              IF IsEligibleToRetry("load", calls[d].load + 1)
                              THEN [@ EXCEPT !["load"] = "up_for_retry"]
                              ELSE Failed(@, "load")]
                  /\ UNCHANGED lastLoaded
  /\ UNCHANGED <<schedule, outages, now, runs, try_number, end_date, xcom>>

\* a minute passes; the clock is read only by retry waits, so it is advanced
\* only while some extract waits for its retry time
Tick ==
  /\ \E d \in LogicalDates :
       ti[d]["extract"] = "up_for_retry" /\ now < ReadyAt(ti[d], end_date[d])
  /\ now' = now + 1
  /\ UNCHANGED <<schedule, outages, runs, ti, try_number, end_date,
                 calls, xcom, error, storage, lastLoaded>>

Next ==
  \/ \E d \in LogicalDates : StartRun(d)
  \/ \E d \in LogicalDates : Extract(d)
  \/ \E d \in LogicalDates : Transform(d)
  \/ \E d \in LogicalDates : Load(d)
  \/ Tick

Spec == Init /\ [][Next]_vars

----------------------------------------------------------------------------
(* Properties *)

\* vocabulary of the properties
UpperLetters == {"A", "B", "C", "D", "E", "F", "G", "H", "I", "J", "K", "L", "M",
                 "N", "O", "P", "Q", "R", "S", "T", "U", "V", "W", "X", "Y", "Z"}
IsCurrencyCode(code) == Len(code) = 3 /\ \A i \in 1..3 : code[i] \in UpperLetters
HasRates(data) == "rates" \in DOMAIN data /\ data["rates"] # << >>
HasFrame(d) == xcom[d].df # NoValue
RowsOf(d) == xcom[d].df.rows
FilesAt(files, d) ==
  {f \in files : f.path = <<OUTPUT_PATH, "/base_currency=", "USD", "/date=", d,
                            "/data.parquet">>}
SameRun(d) == ti'[d]["extract"] # "scheduled" \/ ti[d]["extract"] = "scheduled"
Timestamp(s) == IF s = "2025-07-01" THEN "2025-07-01 00:00:00" ELSE "2025-07-02 00:00:00"

\* C1 (as stated): when every extract call of a run fails, the run makes
\* exactly 5 extract calls, then fails without calling transform or load.
C1_FiveCalls ==
  \A d \in LogicalDates :
    ti[d]["extract"] = "failed" =>
      /\ calls[d].extract = 5
      /\ calls[d].transform = 0 /\ calls[d].load = 0

\* C1 (amended): when every extract call of a run fails, the run makes exactly
\* 6 extract calls (the first attempt and 5 retries), every retry starts no
\* sooner than the fixed 1 minute after the previous attempt ended, the run is
\* then failed, and neither transform nor load is ever called.
C1_RetryExhaustion ==
  /\ [](\A d \in LogicalDates :
          ti[d]["extract"] = "failed" =>
            /\ calls[d].extract = 6
            /\ RunState(ti[d]) = "failed"
            /\ error[d] = "AirflowException: API request failed"
            /\ calls[d].transform = 0 /\ calls[d].load = 0 /\ calls[d].write = 0
            /\ ti[d]["transform"] = "upstream_failed"
            /\ ti[d]["load"] = "upstream_failed")
  /\ [][\A d \in LogicalDates :
          (calls[d].extract >= 1 /\ calls'[d].extract = calls[d].extract + 1)
            => now' >= end_date[d] + 1]_vars

C1_Witness ==
  \E d \in LogicalDates : ti[d]["extract"] = "failed" /\ now >= 5

\* C2: the partition of a (date, base_currency) pair holds no file before the
\* first successful run, and after any number of successful runs exactly one
\* file, whose content is the table of the last successful run alone: the
\* four columns in order and one row per rate of that run's response.
C2_Idempotent ==
  \A d \in LogicalDates :
    LET files == FilesAt(storage, d)
        data == lastLoaded[d].data
    IN /\ lastLoaded[d].n = 0 => files = {}
       /\ lastLoaded[d].n > 0 =>
            /\ Cardinality(files) = 1
            /\ \A f \in files :
                 /\ f.content.columns = <<"date", "base_currency", "currency_code", "rate">>
                 /\ Len(f.content.rows) = Len(data["rates"])
                 /\ \A i \in 1..Len(f.content.rows) :
                      /\ f.content.rows[i][2] = "USD"
                      /\ f.content.rows[i][3] = data["rates"][i][1]
                      /\ f.content.rows[i][4] = data["rates"][i][2]
                      /\ f.content.rows[i][1] =
                           IF "date" \notin DOMAIN data THEN Timestamp(d)
                           ELSE IF data["date"] = None THEN None
                           ELSE Timestamp(data["date"])

C2_Witness ==
  \E d \in LogicalDates :
    /\ lastLoaded[d].n >= 2
    /\ Cardinality(FilesAt(storage, d)) = 1

\* C3: within a run transform is called only after extract succeeded and load
\* only after transform succeeded, a failed task leaves the later ones
\* uncalled, and storage changes only in a load step of a run whose extract
\* and transform both succeeded.
C3_StageOrder ==
  /\ [](\A d \in LogicalDates :
          /\ calls[d].transform > 0 => ti[d]["extract"] = "success"
          /\ calls[d].load > 0 =>
               ti[d]["extract"] = "success" /\ ti[d]["transform"] = "success"
          /\ calls[d].write > 0 => calls[d].load > 0
          /\ ti[d]["extract"] = "failed" =>
               calls[d].transform = 0 /\ calls[d].load = 0 /\ calls[d].write = 0
          /\ ti[d]["transform"] = "failed" =>
               calls[d].load = 0 /\ calls[d].write = 0)
  /\ [][storage' # storage =>
          \E d \in LogicalDates :
            /\ ti[d]["extract"] = "success" /\ ti[d]["transform"] = "success"
            /\ calls'[d].load = calls[d].load + 1]_vars

C3_Witness ==
  \E d \in LogicalDates :
    /\ ti[d]["load"] = "success" /\ calls[d].write = 1
    /\ FilesAt(storage, d) # {}

\* C4: a response whose rates are empty or absent makes transform fail with
\* the validation error and no table; transform is called once, extract is
\* not called again in that run and load is never called.
C4_EmptyRates ==
  /\ [](\A d \in LogicalDates :
          (calls[d].transform > 0 /\ ~HasRates(xcom[d].data)) =>
            /\ ti[d]["transform"] = "failed"
            /\ error[d] = "ValueError: No rate data available"
            /\ ~HasFrame(d)
            /\ calls[d].transform = 1
            /\ ti[d]["load"] = "upstream_failed"
            /\ calls[d].load = 0 /\ calls[d].write = 0)
  /\ [][\A d \in LogicalDates :
          (ti[d]["transform"] = "failed" /\ SameRun(d)) =>
            calls'[d] = calls[d] /\ ti'[d] = ti[d]]_vars

C4_Witness ==
  \E d \in LogicalDates :
    /\ ti[d]["transform"] = "failed"
    /\ "rates" \in DOMAIN xcom[d].data
    /\ xcom[d].data["rates"] = << >>
    /\ calls[d].extract >= 1

\* C5: a table returned by transform has exactly the columns date,
\* base_currency, currency_code, rate in that order and one row per entry of
\* the response's rates, carrying that entry's code and rate and the base
\* currency.
C5_ColumnContract ==
  \A d \in LogicalDates :
    HasFrame(d) =>
      LET rates == xcom[d].data["rates"]
      IN /\ xcom[d].df.columns = <<"date", "base_currency", "currency_code", "rate">>
         /\ Len(RowsOf(d)) = Len(rates)
         /\ Cardinality({RowsOf(d)[i]["currency_code"] : i \in 1..Len(RowsOf(d))})
              = Len(rates)
         /\ \A i \in 1..Len(rates) :
              /\ DOMAIN RowsOf(d)[i] = {"date", "base_currency", "currency_code", "rate"}
              /\ RowsOf(d)[i]["currency_code"] = rates[i][1]
              /\ RowsOf(d)[i]["rate"] = rates[i][2]
              /\ RowsOf(d)[i]["base_currency"] = "USD"

C5_Witness ==
  \E d \in LogicalDates : HasFrame(d) /\ Len(RowsOf(d)) = 2

C7_RecordInvariant ==
  \A d \in LogicalDates :
    HasFrame(d) =>
      \A i \in 1..Len(RowsOf(d)) :
        /\ RowsOf(d)[i]["rate"] > 0
        /\ IsCurrencyCode(RowsOf(d)[i]["currency_code"])

\* C8: runs of different logical dates write different paths: a load step of
\* one date leaves the files of every other date as they are, and while a
\* run's load stands as succeeded its partition holds exactly the table of
\* that run, whatever the other runs did.
C8_DisjointPartitions ==
  /\ [](\A d \in LogicalDates :
          ti[d]["load"] = "success" =>
            /\ Cardinality(FilesAt(storage, d)) = 1
            /\ \A f \in FilesAt(storage, d) :
                 /\ f.content.columns = xcom[d].df.columns
                 /\ Len(f.content.rows) = Len(RowsOf(d))
                 /\ \A i \in 1..Len(RowsOf(d)) :
                      \A j \in 1..Len(f.content.columns) :
                        f.content.rows[i][j] = RowsOf(d)[i][f.content.columns[j]])
  /\ [][\A d \in LogicalDates :
          calls'[d].load = calls[d].load + 1 =>
            \A e \in LogicalDates \ {d} : FilesAt(storage', e) = FilesAt(storage, e)]_vars

C8_Witness ==
  \E d \in LogicalDates, e \in LogicalDates :
    /\ d # e
    /\ ti[d]["load"] = "success" /\ ti[e]["load"] = "success"
    /\ FilesAt(storage, d) # {} /\ FilesAt(storage, e) # {}

\* C9: a failed load is final: load was called once in the run, the error is
\* the authentication failure with no write attempted or the write failure
\* after one attempt, a write is only ever attempted with credentials in
\* hand, and nothing of the run is called again afterwards.
C9_LoadFailure ==
  /\ [](\A d \in LogicalDates :
          /\ calls[d].write <= calls[d].credentials
          /\ ti[d]["load"] = "failed" =>
               /\ calls[d].load = 1 /\ calls[d].transform = 1
               /\ RunState(ti[d]) = "failed"
               /\ \/ /\ error[d] = "AirflowException: Failed to authenticate with GCP"
                     /\ calls[d].credentials = 0 /\ calls[d].write = 0
                  \/ /\ error[d] = "AirflowException: Failed to write to GCS"
                     /\ calls[d].credentials = 1 /\ calls[d].write = 1)
  /\ [][\A d \in LogicalDates :
          (ti[d]["load"] = "failed" /\ SameRun(d)) =>
            calls'[d] = calls[d] /\ ti'[d] = ti[d]]_vars

C9_Witness ==
  \E d \in LogicalDates :
    /\ ti[d]["load"] = "failed"
    /\ error[d] = "AirflowException: Failed to authenticate with GCP"

\* C10: every stored file lies at the path built from the output root, the
\* base currency and the logical date of the run that wrote it, and a run
\* whose load succeeded finds its table there even when the rows carry
\* another date.
C10_PathFromLogicalDate ==
  /\ \A f \in storage :
       \E d \in LogicalDates :
         /\ f.path = <<"gs://bucket/rates", "/base_currency=", "USD", "/date=", d,
                       "/data.parquet">>
         /\ lastLoaded[d].n > 0
  /\ \A d \in LogicalDates :
       ti[d]["load"] = "success" =>
         \E f \in storage :
           /\ f.path[5] = d
           /\ Len(f.content.rows) = Len(RowsOf(d))
           /\ f.content.rows[1][1] = RowsOf(d)[1]["date"]

C10_Witness ==
  \E d \in LogicalDates :
    /\ ti[d]["load"] = "success"
    /\ \E f \in storage :
         /\ f.path[5] = d
         /\ f.content.rows[1][1] # None
         /\ f.content.rows[1][1] # Timestamp(d)

====
